---- MODULE Spec2Model ----
(***************************************************************************)
(* NT_BMIPGen: generation, loading and triviality filtering of bilevel     *)
(* mixed-integer programs.                                                 *)
(*                                                                         *)
(* Three specifications share the variables:                               *)
(*   Spec       - the corpus operations of triviality.py                   *)
(*                (Triviality_calculate, nontrivial_BMIP_generator) called *)
(*                one after another with the same problems_name; the       *)
(*                solver is an oracle that fails or yields the objective   *)
(*                values the loop reads off the model.                     *)
(*   SpecModel  - load_problem, fixed_upper, setlowerobj, unfixed_upper of *)
(*                problem_loading.py on an instance on disk, with a solver *)
(*                oracle that returns a true optimum over a finite grid.   *)
(*   SpecOracle - one corpus operation whose loop body is spelled out      *)
(*                statement by statement on the model of SpecModel.        *)
(*                                                                         *)
(* Python indexes from 0; sequences here index from 1.                     *)
(* Objective values of Spec are fixed-point, in units of 1e-7.             *)
(***************************************************************************)
EXTENDS Integers, Sequences, FiniteSets, TLC

VARIABLES
    \* ---- corpus operations (triviality.py) ----
    pc,               \* position of the running operation
    op,               \* "none" | "Triviality_calculate" | "nontrivial_BMIP_generator"
    parameters,       \* the parameters dict of the running call
    N_eval,           \* Triviality_calculate argument
    N_gen,            \* nontrivial_BMIP_generator argument
    I,                \* nontrivial_BMIP_generator argument
    max_iterations,   \* local of nontrivial_BMIP_generator
    i,                \* loop variable of Triviality_calculate (Unbound before the loop)
    iteration,        \* loop variable of nontrivial_BMIP_generator (Unbound before the loop)
    count,            \* trivial counter of Triviality_calculate
    count_trivial,    \* counters of nontrivial_BMIP_generator
    count_nontrivial,
    problem_name,     \* n stands for the directory "problem_n"; 0 before the first attempt
    RO_Obj,           \* <<>> when not assigned, <<v>> otherwise
    RF_Obj,
    folder,           \* the problems folder: slot n -> instance stored in problem_n
    result,           \* the value returned by the operation, [kind |-> "none"] before
    err,              \* name of the exception that ended the operation, "" if none
    problems_name,    \* the problems_name argument the caller passes to every call
    cwd,              \* the working directory of the process
    entry_cwd,        \* the working directory when the running operation was entered
    \* ---- history of the corpus operations ----
    calls,            \* operations started
    gens,             \* generate_problem calls of the running operation
    solves,           \* solver calls of the running operation
    kept,             \* instances the running operation classified non-trivial
    lost,             \* an instance classified non-trivial was overwritten later
    \* ---- model builder and state controller (problem_loading.py) ----
    inst,             \* the instance folder handed to load_problem
    model,            \* the Pyomo model, [built |-> FALSE] before load_problem
    mpc,              \* "start" | "built" | "error" | "failed"
    ops,              \* operations applied to the model since it was built
    obs,              \* per successful solve: value of the active and of the upper objective
    snap              \* the model as it was when fixed_upper was last entered

corpusVars == <<pc, op, parameters, N_eval, N_gen, I, max_iterations, i, iteration,
                count, count_trivial, count_nontrivial, problem_name, RO_Obj, RF_Obj,
                folder, result, err, problems_name, cwd, entry_cwd, calls, gens, solves,
                kept, lost>>
modelVars == <<inst, model, mpc, ops, obs, snap>>
vars == <<corpusVars, modelVars>>

(***************************************************************************)
(* Bounds of the model                                                     *)
(***************************************************************************)
MaxN == 2          \* N_eval, N_gen range over 0..MaxN
MaxI == 2          \* I ranges over 0..MaxI
MaxCalls == 2      \* corpus operations called one after another
MaxOps == 4        \* operations applied to one built model

(***************************************************************************)
(* Program constants                                                       *)
(***************************************************************************)
EPS == 10          \* 1e-6, the triviality threshold, in units of 1e-7
LowerBound == -10  \* default_bounds[0]
UpperBound == 10   \* default_bounds[1]

Unbound == -1      \* a loop variable the for statement has not assigned yet

(***************************************************************************)
(* Small helpers                                                           *)
(***************************************************************************)
Abs(x) == IF x < 0 THEN -x ELSE x

RECURSIVE SumSeq(_)
SumSeq(s) == IF s = <<>> THEN 0 ELSE Head(s) + SumSeq(Tail(s))

RECURSIVE Concat(_)
Concat(ss) == IF ss = <<>> THEN <<>> ELSE Head(ss) \o Concat(Tail(ss))

Range(s) == {s[k] : k \in DOMAIN s}

(***************************************************************************)
(* Instance data: variable groups, constraint blocks, objective blocks     *)
(***************************************************************************)
VarGroups == {"x_ud", "y_ud", "x_uc", "y_uc", "x_ld", "y_ld", "x_lc", "y_lc"}

ConstraintBlocks_OwnLevelOnly ==
    [G_ud |-> <<"x_ud", "y_ud">>,
     g_ld |-> <<"x_ld", "y_ld">>,
     G_uc |-> <<"x_ud", "y_ud">>,
     g_lc |-> <<"x_ld", "y_ld">>,
     g_g  |-> <<"x_uc", "y_uc", "x_lc", "y_lc">>]

\* block name -> feeding groups in declared order
ConstraintBlocks ==
    [G_ud |-> <<"x_ud", "y_ud">>,
     g_ld |-> <<"x_ld", "y_ld">>,
     G_uc |-> <<"x_ud", "y_ud", "x_uc", "y_uc">>,
     g_lc |-> <<"x_ld", "y_ld", "x_lc", "y_lc">>,
     g_g  |-> <<"x_uc", "y_uc", "x_lc", "y_lc">>]

ObjectiveBlocks ==
    [F_u  |-> <<"x_ud", "y_ud">>,
     F_l  |-> <<"x_ld", "y_ld">>,
     F_c  |-> <<"x_uc", "y_uc", "x_lc", "y_lc">>,
     ff_l |-> <<"x_ld", "y_ld">>,
     ff_c |-> <<"x_uc", "y_uc", "x_lc", "y_lc">>]

ConstraintOrder == <<"G_ud", "g_ld", "G_uc", "g_lc", "g_g">>

\* sum([parameters[i] for i in xs])
GroupTotal(params, xs) == SumSeq([k \in DOMAIN xs |-> params[xs[k]]])

\* A parameters dict with the eight variable counts.
Counts(xud, yud, xuc, yuc, xld, yld, xlc, ylc) ==
    [x_ud |-> xud, y_ud |-> yud, x_uc |-> xuc, y_uc |-> yuc,
     x_ld |-> xld, y_ld |-> yld, x_lc |-> xlc, y_lc |-> ylc]

\* The dict of the test script: the counts plus constraint-count keys no code reads.
WithConstraintCounts(params, gg) ==
    params @@ [G_ud |-> 0, g_ld |-> 0, G_uc |-> 0, g_lc |-> 0, g_g |-> gg]

(***************************************************************************)
(* generate_problem                                                        *)
(* draw: the outcome of the random sampling, [A: block -> kind, b: value,  *)
(* o: block -> value]; matrices are "zero", "diag" (identity) or "ramp"    *)
(* (every entry different, for up to 4 rows and columns), vectors are      *)
(* constant.  All entries are values create_random_matrix can return.      *)
(***************************************************************************)
MatrixOf(kind, rows, cols) ==
    [r \in 1..rows |-> [c \in 1..cols |->
        IF kind = "ramp" THEN 4 * (r - 1) + c - 9
        ELSE IF kind = "diag" /\ r = c THEN 1 ELSE 0]]

VectorOf(v, len) == [k \in 1..len |-> v]

generate_problem(params, draw) ==
    [metadata |-> params,
     A |-> [blk \in DOMAIN ConstraintBlocks |->
               LET size == GroupTotal(params, ConstraintBlocks[blk])
               IN  MatrixOf(draw.A[blk], size, size)],
     b |-> [blk \in DOMAIN ConstraintBlocks |->
               VectorOf(draw.b, GroupTotal(params, ConstraintBlocks[blk]))],
     o |-> [blk \in DOMAIN ObjectiveBlocks |->
               VectorOf(draw.o[blk], GroupTotal(params, ObjectiveBlocks[blk]))]]

(***************************************************************************)
(* load_problem                                                            *)
(* A linear expression is a sequence of terms [blk, grp, idx, coef]: coef  *)
(* times variable idx of group grp, contributed by block blk.              *)
(***************************************************************************)
DomainOf(g) == IF g \in {"x_ud", "x_uc", "x_ld", "x_lc"} THEN "Reals" ELSE "Binary"

\* Var(range(parameters[g]), domain=..., bounds=default_bounds): no value, not fixed
NewVar(g) ==
    [domain |-> DomainOf(g), bounds |-> <<LowerBound, UpperBound>>,
     value |-> <<>>, fixed |-> FALSE]

\* a variant that reads the count of the group in place of the running total
CumSum_GroupCount(params, xs, idx) == IF idx = 0 THEN 0 ELSE params[xs[idx]]

\* np.cumsum over the counts of xs, read at position idx (0 before the first group)
CumSum(params, xs, idx) == GroupTotal(params, SubSeq(xs, 1, idx))

\* sum(coefs[j] * model.<xs[idx]>[j - start] for j in range(start, k[idx])) for
\* every idx, concatenated: column j multiplies the j-th variable of the groups.
BlockTerms(params, xs, coefs, blk) ==
    Concat([idx \in DOMAIN xs |->
        LET start == CumSum(params, xs, idx - 1)
        IN  [d \in 1..(CumSum(params, xs, idx) - start) |->
                [blk |-> blk, grp |-> xs[idx], idx |-> d, coef |-> coefs[start + d]]]])

\* add_constraints: the rows it appends, one per entry of b (size = b.size)
ConstraintRows(instance, blk) ==
    LET params == instance.metadata
        xs == ConstraintBlocks[blk]
    IN  IF GroupTotal(params, xs) # 0
        THEN [r \in 1..Len(instance.b[blk]) |->
                 [blk |-> blk,
                  terms |-> BlockTerms(params, xs, instance.A[blk][r], blk),
                  rhs |-> instance.b[blk][r]]]
        ELSE <<>>

\* add_constraints raises IndexError when A[i, j] is read outside the loaded matrix
ConstraintIndexError(instance, blk) ==
    LET n == GroupTotal(instance.metadata, ConstraintBlocks[blk])
        A == instance.A[blk]
    IN  /\ n # 0
        /\ \E r \in 1..Len(instance.b[blk]) : r > Len(A) \/ Len(A[r]) < n

\* build_objective: 0 (no term) for a block whose groups are all empty
build_objective(instance, blk) ==
    LET params == instance.metadata
        xs == ObjectiveBlocks[blk]
    IN  IF GroupTotal(params, xs) = 0
        THEN <<>>
        ELSE BlockTerms(params, xs, instance.o[blk], blk)

\* build_objective raises IndexError when o[j] is read outside the loaded vector
ObjectiveIndexError(instance, blk) ==
    LET n == GroupTotal(instance.metadata, ObjectiveBlocks[blk])
    IN  n # 0 /\ Len(instance.o[blk]) < n

NoModel == [built |-> FALSE, error |-> ""]

load_problem(instance) ==
    IF \/ \E blk \in DOMAIN ConstraintBlocks : ConstraintIndexError(instance, blk)
       \/ \E blk \in DOMAIN ObjectiveBlocks : ObjectiveIndexError(instance, blk)
    THEN [built |-> FALSE, error |-> "IndexError"]
    ELSE LET upper == build_objective(instance, "F_u") \o build_objective(instance, "F_l")
                      \o build_objective(instance, "F_c")
             lower == build_objective(instance, "ff_l") \o build_objective(instance, "ff_c")
         IN  [built |-> TRUE,
              error |-> "",
              var |-> [g \in VarGroups |-> [k \in 1..instance.metadata[g] |-> NewVar(g)]],
              constraints |-> Concat([c \in DOMAIN ConstraintOrder |->
                                         ConstraintRows(instance, ConstraintOrder[c])]),
              upper_objective |-> upper,
              lower_objective |-> lower,
              objective |-> [expr |-> upper, sense |-> "minimize"]]

(***************************************************************************)
(* fixed_upper, setlowerobj, unfixed_upper                                 *)
(***************************************************************************)
upper_params == <<"x_uc", "y_uc", "x_ud", "y_ud">>

\* the groups of a variant that handles the coupled groups only
coupled_params == <<"x_uc", "y_uc">>

fixed_upper_CoupledOnly(m) ==
    [m EXCEPT !.var = [g \in VarGroups |->
        IF g \in Range(coupled_params)
        THEN [k \in DOMAIN m.var[g] |-> [m.var[g][k] EXCEPT !.fixed = TRUE]]
        ELSE m.var[g]]]

unfixed_upper_CoupledOnly(m) ==
    [m EXCEPT !.var = [g \in VarGroups |->
        IF g \in Range(coupled_params)
        THEN [k \in DOMAIN m.var[g] |-> [m.var[g][k] EXCEPT !.fixed = FALSE]]
        ELSE m.var[g]]]

\* upper_param[i].fix(upper_param[i].value): the value is kept, the flag is set
fixed_upper(m) ==
    [m EXCEPT !.var = [g \in VarGroups |->
        IF g \in Range(upper_params)
        THEN [k \in DOMAIN m.var[g] |-> [m.var[g][k] EXCEPT !.fixed = TRUE]]
        ELSE m.var[g]]]

setlowerobj(m) == [m EXCEPT !.objective.expr = m.lower_objective]

unfixed_upper(m) ==
    [m EXCEPT !.var = [g \in VarGroups |->
        IF g \in Range(upper_params)
        THEN [k \in DOMAIN m.var[g] |-> [m.var[g][k] EXCEPT !.fixed = FALSE]]
        ELSE m.var[g]]]

(***************************************************************************)
(* The solver oracle: a true optimum of the active objective over the      *)
(* feasible assignments, continuous variables taken on a finite grid.      *)
(***************************************************************************)
Grid == {LowerBound, 0, UpperBound}

VarIds(m) == UNION {{<<g, k>> : k \in DOMAIN m.var[g]} : g \in VarGroups}

Candidates(v) ==
    IF v.fixed
    THEN Range(v.value)
    ELSE {x \in (IF v.domain = "Binary" THEN {0, 1} ELSE Grid) :
             v.bounds[1] <= x /\ x <= v.bounds[2]}

ValueOf(expr, a) == SumSeq([t \in DOMAIN expr |-> expr[t].coef * a[<<expr[t].grp, expr[t].idx>>]])

Feasible(m) ==
    {a \in [VarIds(m) -> Grid \cup {0, 1}] :
        /\ \A id \in VarIds(m) : a[id] \in Candidates(m.var[id[1]][id[2]])
        /\ \A c \in DOMAIN m.constraints :
              ValueOf(m.constraints[c].terms, a) <= m.constraints[c].rhs}

Optimal(m) ==
    LET F == Feasible(m)
        values == {ValueOf(m.objective.expr, a) : a \in F}
        best == CHOOSE v \in values : \A w \in values : v <= w
    IN  {a \in F : ValueOf(m.objective.expr, a) = best}

\* the solution loaded back into the model
Loaded(m, a) ==
    [m EXCEPT !.var = [g \in VarGroups |->
        [k \in DOMAIN m.var[g] |-> [m.var[g][k] EXCEPT !.value = <<a[<<g, k>>]>>]]]]

\* model.<expression>(): the value of an expression at the variables' values
Evaluate(expr, m) ==
    SumSeq([t \in DOMAIN expr |-> expr[t].coef * m.var[expr[t].grp][expr[t].idx].value[1]])

(***************************************************************************)
(* Inputs of the corpus operations                                         *)
(***************************************************************************)
Draw(agg, aoth, bv, fu, fl, fc, ffl, ffc) ==
    [A |-> [G_ud |-> aoth, g_ld |-> aoth, G_uc |-> aoth, g_lc |-> aoth, g_g |-> agg],
     b |-> bv,
     o |-> [F_u |-> fu, F_l |-> fl, F_c |-> fc, ff_l |-> ffl, ff_c |-> ffc]]

\* the dict of the test script, counts scaled down
CorpusParams == {WithConstraintCounts(Counts(0, 0, 2, 0, 0, 0, 2, 0), 2)}

CorpusDraws == {Draw("diag", "zero", UpperBound, 1, 1, 1, -1, -1)}

\* what the two solves can leave in mymodel.objective() and mymodel.upper_objective()
\* (units of 1e-7): gaps of -1e-6, -1e-7, 9e-7 and 1e-6
ROValues == {1}
RFValues == {1 - EPS, 0, EPS, 1 + EPS}

NoResult == [kind |-> "none"]

(***************************************************************************)
(* Directories.  A directory is the sequence of its components from the    *)
(* root; a path argument is relative to the working directory or absolute. *)
(***************************************************************************)
Relative(parts) == [absolute |-> FALSE, parts |-> parts]
Absolute(parts) == [absolute |-> TRUE, parts |-> parts]

\* the working directory the caller starts in
StartDir == <<"work">>

\* problems_name="problems_folder", the default of both operations
DefaultName == Relative(<<"problems_folder">>)

\* one component, several components, absolute
ProblemsNames ==
    {DefaultName,
     Relative(<<"a", "b">>),
     Absolute(<<"data", "problems_folder">>)}

\* ".."
ParentDir == Relative(<<"..">>)

\* the directory a path names, seen from the directory from
RECURSIVE Walk(_, _)
Walk(from, parts) ==
    IF parts = <<>> THEN from
    ELSE Walk(IF Head(parts) = ".."
              THEN SubSeq(from, 1, IF from = <<>> THEN 0 ELSE Len(from) - 1)
              ELSE Append(from, Head(parts)),
              Tail(parts))

\* os.chdir(path): the working directory afterwards
chdir(from, path) == Walk(IF path.absolute THEN <<>> ELSE from, path.parts)

\* the instances an operation finds in the folder it enters: those the previous
\* operation left when it worked in the same directory, none in a directory no
\* operation has worked in
Entered(dir) ==
    IF calls > 0 /\ dir = chdir(entry_cwd, problems_name) THEN folder ELSE <<>>

(***************************************************************************)
(* Steps shared by the two corpus operations                               *)
(***************************************************************************)
\* the problems folder after generate_problem(problem_name, parameters)
Written(dir, name, instance) ==
    [s \in DOMAIN dir \cup {name} |-> IF s = name THEN instance ELSE dir[s]]

\* problem_name holds an instance that was classified non-trivial and annotated
HoldsRetained(dir, name) == name \in DOMAIN dir /\ "Gap" \in DOMAIN dir[name].metadata

\* shutil.rmtree(problem_name) when the directory exists
Removed(dir, name) == [s \in DOMAIN dir \ {name} |-> dir[s]]

IsTrivial_Signed(gap) == gap < EPS

\* abs(gap) < 1e-6
IsTrivial(gap) == Abs(gap) < EPS

\* metadata.update({"RO_Obj": ..., "RF_Obj": ..., "Gap": ...})
UpdatedMetadata(metadata, ro, rf, gap) ==
    LET new == [RO_Obj |-> ro, RF_Obj |-> rf, Gap |-> gap]
    IN  [k \in DOMAIN metadata \cup DOMAIN new |->
            IF k \in DOMAIN new THEN new[k] ELSE metadata[k]]

\* the folder after the metadata of problem_name is read, updated and written back
Annotated(dir, name, ro, rf, gap) ==
    [dir EXCEPT ![name].metadata =
        UpdatedMetadata(IF name \in DOMAIN dir THEN dir[name].metadata ELSE <<>>,
                        ro, rf, gap)]

\* generate_problem(problem_name, parameters)
Generate(name) ==
    /\ \E draw \in CorpusDraws :
          folder' = Written(folder, name, generate_problem(parameters, draw))
    /\ lost' = (lost \/ HoldsRetained(folder, name))
    /\ problem_name' = name
    /\ gens' = gens + 1
    /\ pc' = "generated"
    /\ UNCHANGED <<RO_Obj, RF_Obj, result, err, solves, kept, cwd>>

OnSolverFailure_Skip == "loop"

\* where control goes when a solver call raises: no handler anywhere, the exception
\* leaves the operation
OnSolverFailure == "raised"

\* load_problem; solver.solve(mymodel); RO_Obj = mymodel.objective()
Relaxed ==
    /\ pc = "generated"
    /\ IF ~load_problem(folder[problem_name]).built
       THEN /\ pc' = "raised"
            /\ err' = "IndexError"
            /\ UNCHANGED <<RO_Obj, solves>>
       ELSE /\ solves' = solves + 1
            /\ \E ok \in BOOLEAN :
                  IF ok
                  THEN /\ \E v \in ROValues : RO_Obj' = <<v>>
                       /\ pc' = "relaxed"
                       /\ err' = err
                  ELSE /\ pc' = OnSolverFailure
                       /\ err' = "SolverFailure"
                       /\ RO_Obj' = RO_Obj
    /\ UNCHANGED <<RF_Obj, folder, problem_name, result, gens, kept, lost, cwd>>

\* fixed_upper; setlowerobj; solver.solve(mymodel); RF_Obj = mymodel.upper_objective()
UpperFixed ==
    /\ pc = "relaxed"
    /\ solves' = solves + 1
    /\ \E ok \in BOOLEAN :
          IF ok
          THEN /\ \E v \in RFValues : RF_Obj' = <<v>>
               /\ pc' = "classify"
               /\ err' = err
          ELSE /\ pc' = OnSolverFailure
               /\ err' = "SolverFailure"
               /\ RF_Obj' = RF_Obj
    /\ UNCHANGED <<RO_Obj, folder, problem_name, result, gens, kept, lost, cwd>>

\* gap = RF_Obj - RO_Obj, then delete the trivial instance or annotate the other
Classified(trivial) ==
    LET gap == RF_Obj[1] - RO_Obj[1]
    IN  /\ trivial = IsTrivial(gap)
        /\ IF trivial
           THEN /\ folder' = Removed(folder, problem_name)
                /\ kept' = kept
           ELSE /\ folder' = Annotated(folder, problem_name, RO_Obj[1], RF_Obj[1], gap)
                /\ kept' = kept + 1
        /\ UNCHANGED <<problem_name, RO_Obj, RF_Obj, result, err, gens, solves, lost, cwd>>

(***************************************************************************)
(* Triviality_calculate                                                    *)
(***************************************************************************)
CanCall == pc \in {"idle", "done"} /\ calls < MaxCalls

Call_Triviality_calculate ==
    /\ CanCall
    /\ \E p \in CorpusParams, n \in 0..MaxN :
          /\ parameters' = p
          /\ N_eval' = n
    /\ op' = "Triviality_calculate"
    /\ count' = 0
    /\ i' = Unbound
    /\ pc' = "loop"
    /\ calls' = calls + 1
    /\ gens' = 0 /\ solves' = 0 /\ kept' = 0
    /\ RO_Obj' = <<>> /\ RF_Obj' = <<>> /\ problem_name' = 0
    /\ result' = NoResult /\ err' = ""
    /\ entry_cwd' = cwd
    /\ cwd' = chdir(cwd, problems_name)
    /\ folder' = Entered(cwd')
    /\ UNCHANGED <<N_gen, I, max_iterations, iteration, count_trivial, count_nontrivial,
                   problems_name, lost, modelVars>>

TC == op = "Triviality_calculate"
TC_frame == UNCHANGED <<op, parameters, N_eval, N_gen, I, max_iterations, iteration,
                        count_trivial, count_nontrivial, calls, problems_name, entry_cwd,
                        modelVars>>

\* for i in range(N_eval): problem_name = f"problem_{i - count + 1}"; generate_problem
TC_Generate ==
    /\ TC /\ pc = "loop" /\ i + 1 < N_eval
    /\ i' = i + 1
    /\ Generate(i' - count + 1)
    /\ UNCHANGED count
    /\ TC_frame

TC_Relaxed == TC /\ Relaxed /\ UNCHANGED <<i, count>> /\ TC_frame

TC_UpperFixed == TC /\ UpperFixed /\ UNCHANGED <<i, count>> /\ TC_frame

TC_Classify ==
    /\ TC /\ pc = "classify"
    /\ \E trivial \in BOOLEAN :
          /\ Classified(trivial)
          /\ count' = IF trivial THEN count + 1 ELSE count
    /\ pc' = "loop"
    /\ UNCHANGED i
    /\ TC_frame

TC_Percentage_LastIndex(cnt, n) == [num |-> cnt * 100, den |-> n - 1]

\* trivial_percentage = count / N_eval * 100, as the fraction num/den
TC_Percentage(cnt, n) == [num |-> cnt * 100, den |-> n]

\* the loop is exhausted: os.chdir(".."), compute, print and return
TC_Return ==
    /\ TC /\ pc = "loop" /\ i + 1 >= N_eval
    /\ cwd' = chdir(cwd, ParentDir)
    /\ IF N_eval = 0
       THEN /\ pc' = "raised"
            /\ err' = "ZeroDivisionError"
            /\ result' = result
       ELSE /\ pc' = "done"
            /\ err' = err
            /\ result' = [kind |-> "value", trivial_percentage |-> TC_Percentage(count, N_eval)]
    /\ UNCHANGED <<i, count, problem_name, RO_Obj, RF_Obj, folder, gens, solves, kept,
                   lost>>
    /\ TC_frame

(***************************************************************************)
(* nontrivial_BMIP_generator                                               *)
(***************************************************************************)
Call_nontrivial_BMIP_generator ==
    /\ CanCall
    /\ \E p \in CorpusParams, n \in 0..MaxN, mult \in 0..MaxI :
          /\ parameters' = p
          /\ N_gen' = n
          /\ I' = mult
          /\ max_iterations' = mult * n
    /\ op' = "nontrivial_BMIP_generator"
    /\ count_trivial' = 0
    /\ count_nontrivial' = 0
    /\ iteration' = Unbound
    /\ pc' = "loop"
    /\ calls' = calls + 1
    /\ gens' = 0 /\ solves' = 0 /\ kept' = 0
    /\ RO_Obj' = <<>> /\ RF_Obj' = <<>> /\ problem_name' = 0
    /\ result' = NoResult /\ err' = ""
    /\ entry_cwd' = cwd
    /\ cwd' = chdir(cwd, problems_name)
    /\ folder' = Entered(cwd')
    /\ UNCHANGED <<N_eval, i, count, problems_name, lost, modelVars>>

NG == op = "nontrivial_BMIP_generator"
NG_frame == UNCHANGED <<op, parameters, N_eval, N_gen, I, max_iterations, i, count, calls,
                        problems_name, entry_cwd, modelVars>>

\* for iteration in range(max_iterations): problem_name = f"problem_{count_nontrivial+1}"
NG_Generate ==
    /\ NG /\ pc = "loop" /\ iteration + 1 < max_iterations
    /\ iteration' = iteration + 1
    /\ Generate(count_nontrivial + 1)
    /\ UNCHANGED <<count_trivial, count_nontrivial>>
    /\ NG_frame

NG_Relaxed == NG /\ Relaxed /\ UNCHANGED <<iteration, count_trivial, count_nontrivial>> /\ NG_frame

NG_UpperFixed ==
    NG /\ UpperFixed /\ UNCHANGED <<iteration, count_trivial, count_nontrivial>> /\ NG_frame

NG_Break_Strict(nontrivial, target, it, maxit) == nontrivial > target \/ it + 1 >= maxit

\* the termination conditions checked at the end of an iteration
NG_Break(nontrivial, target, it, maxit) == nontrivial >= target \/ it + 1 >= maxit

NG_Classify ==
    /\ NG /\ pc = "classify"
    /\ \E trivial \in BOOLEAN :
          /\ Classified(trivial)
          /\ count_trivial' = IF trivial THEN count_trivial + 1 ELSE count_trivial
          /\ count_nontrivial' = IF trivial THEN count_nontrivial ELSE count_nontrivial + 1
    /\ pc' = IF NG_Break(count_nontrivial', N_gen, iteration, max_iterations)
             THEN "exit" ELSE "loop"
    /\ UNCHANGED iteration
    /\ NG_frame

\* count_trivial / iteration * 100 if iteration > 0 else 0, as the fraction num/den
NG_Percentage(trivial, it) ==
    IF it > 0 THEN [num |-> trivial * 100, den |-> it] ELSE [num |-> 0, den |-> 1]

\* after the loop (break, or range exhausted): os.chdir(".."), compute, print, return
NG_Return ==
    /\ NG
    /\ pc \in {"exit", "loop"}
    /\ pc = "loop" => iteration + 1 >= max_iterations
    /\ cwd' = chdir(cwd, ParentDir)
    /\ IF iteration = Unbound
       THEN /\ pc' = "raised"
            /\ err' = "UnboundLocalError"
            /\ result' = result
       ELSE /\ pc' = "done"
            /\ err' = err
            /\ result' = [kind |-> "value",
                          trivial_percentage |-> NG_Percentage(count_trivial, iteration),
                          count_nontrivial |-> count_nontrivial]
    /\ UNCHANGED <<iteration, count_trivial, count_nontrivial, problem_name, RO_Obj, RF_Obj,
                   folder, gens, solves, kept, lost>>
    /\ NG_frame

(***************************************************************************)
(* The corpus specification                                                *)
(***************************************************************************)
InitCorpus ==
    /\ pc = "idle" /\ op = "none" /\ parameters = <<>>
    /\ N_eval = 0 /\ N_gen = 0 /\ I = 0 /\ max_iterations = 0
    /\ i = Unbound /\ iteration = Unbound
    /\ count = 0 /\ count_trivial = 0 /\ count_nontrivial = 0
    /\ problem_name = 0 /\ RO_Obj = <<>> /\ RF_Obj = <<>>
    /\ folder = <<>>
    /\ result = NoResult /\ err = ""
    /\ cwd = StartDir /\ entry_cwd = StartDir
    /\ calls = 0 /\ gens = 0 /\ solves = 0 /\ kept = 0 /\ lost = FALSE

InitModelIdle ==
    /\ inst = <<>> /\ model = NoModel /\ mpc = "start"
    /\ ops = <<>> /\ obs = <<>> /\ snap = NoModel

\* the caller passes the same problems_name to every call, as src/test.py does with
\* the default
Init == InitCorpus /\ InitModelIdle /\ problems_name \in ProblemsNames

\* the same, with the default problems_name
InitDefault == InitCorpus /\ InitModelIdle /\ problems_name = DefaultName

Next ==
    \/ Call_Triviality_calculate
    \/ TC_Generate
    \/ TC_Relaxed
    \/ TC_UpperFixed
    \/ TC_Classify
    \/ TC_Return
    \/ Call_nontrivial_BMIP_generator
    \/ NG_Generate
    \/ NG_Relaxed
    \/ NG_UpperFixed
    \/ NG_Classify
    \/ NG_Return

Spec == Init /\ [][Next]_vars

(***************************************************************************)
(* The model builder and state controller on an instance on disk           *)
(***************************************************************************)
ScenarioParams == Counts(0, 0, 2, 0, 0, 0, 2, 0)

\* variable counts: the end-to-end scenario; lower decoupled variables present;
\* binary groups with an upper decoupled one; empty groups first, in the middle, last;
\* no upper-level variable at all
ModelParams ==
    {ScenarioParams,
     Counts(0, 0, 1, 0, 1, 0, 1, 0),
     Counts(0, 1, 0, 1, 0, 0, 0, 1),
     Counts(1, 0, 0, 1, 0, 1, 1, 0),
     Counts(0, 0, 0, 0, 0, 1, 1, 0)}

ModelDraws ==
    {Draw(agg, aoth, 0, 1, 1, fc, ffl, ffc) :
        agg \in {"zero", "diag"}, aoth \in {"zero", "diag"},
        fc \in {-1, 1}, ffl \in {-1, 1}, ffc \in {-1, 1}}

\* matrices whose entries all differ, right-hand sides that leave them slack
RampDraw == Draw("ramp", "ramp", UpperBound, 1, 1, 1, 1, 1)

GeneratedInstances ==
    {generate_problem(p, d) : p \in ModelParams, d \in ModelDraws \cup {RampDraw}}

\* an instance folder whose files were not written for its metadata: the g_g_A.csv,
\* g_g_b.csv or F_c.csv read by pd.read_csv has other dimensions
Resized(instance, rows, cols, blen, olen) ==
    [instance EXCEPT !.A["g_g"] = MatrixOf("diag", rows, cols),
                     !.b["g_g"] = VectorOf(0, blen),
                     !.o["F_c"] = VectorOf(1, olen)]

\* one dimension off by one at a time, and A and b both one row short or long
ResizedInstances ==
    LET base == generate_problem(ScenarioParams, Draw("diag", "zero", 0, 1, 1, 1, 1, 1))
        n == GroupTotal(ScenarioParams, ConstraintBlocks["g_g"])
    IN  {Resized(base, n + d[1], n + d[2], n + d[3], n + d[4]) :
            d \in {<<-1, 0, 0, 0>>, <<1, 0, 0, 0>>, <<0, -1, 0, 0>>, <<0, 1, 0, 0>>,
                   <<0, 0, -1, 0>>, <<0, 0, 1, 0>>, <<0, 0, 0, -1>>, <<0, 0, 0, 1>>,
                   <<-1, 0, -1, 0>>, <<1, 0, 1, 0>>}}

ModelInstances == GeneratedInstances \cup ResizedInstances

CanApply == mpc = "built" /\ Len(ops) < MaxOps

\* mymodel = ConcreteModel(); load_problem(folder, model=mymodel)
M_load_problem ==
    /\ mpc = "start"
    /\ model' = load_problem(inst)
    /\ mpc' = IF model'.built THEN "built" ELSE "error"
    /\ UNCHANGED <<inst, ops, obs, snap, corpusVars>>

\* solver.solve(model): an optimum is loaded into the model, or the solver fails
M_solve ==
    /\ CanApply
    /\ \E ok \in BOOLEAN :
          IF ok
          THEN /\ \E a \in Optimal(model) : model' = Loaded(model, a)
               /\ obs' = Append(obs, [objective |-> Evaluate(model'.objective.expr, model'),
                                      upper_objective |->
                                          Evaluate(model'.upper_objective, model')])
               /\ ops' = Append(ops, "solve")
               /\ mpc' = mpc
          ELSE /\ mpc' = "failed"
               /\ UNCHANGED <<model, obs, ops>>
    /\ UNCHANGED <<inst, snap, corpusVars>>

M_fixed_upper ==
    /\ CanApply
    /\ snap' = model
    /\ model' = fixed_upper(model)
    /\ ops' = Append(ops, "fixed_upper")
    /\ UNCHANGED <<inst, mpc, obs, corpusVars>>

M_setlowerobj ==
    /\ CanApply
    /\ model' = setlowerobj(model)
    /\ ops' = Append(ops, "setlowerobj")
    /\ UNCHANGED <<inst, mpc, obs, snap, corpusVars>>

M_unfixed_upper ==
    /\ CanApply
    /\ model' = unfixed_upper(model)
    /\ ops' = Append(ops, "unfixed_upper")
    /\ UNCHANGED <<inst, mpc, obs, snap, corpusVars>>

InitModel ==
    /\ InitCorpus /\ problems_name = DefaultName
    /\ inst \in ModelInstances
    /\ model = NoModel /\ mpc = "start"
    /\ ops = <<>> /\ obs = <<>> /\ snap = NoModel

NextModel ==
    \/ M_load_problem
    \/ M_solve
    \/ M_fixed_upper
    \/ M_setlowerobj
    \/ M_unfixed_upper

SpecModel == InitModel /\ [][NextModel]_vars

(***************************************************************************)
(* One corpus operation with the model builder, the state controller and   *)
(* the exact-optimum solver oracle in the loop body (triviality.py:59-102, *)
(* 151-202): the attempt is spelled out statement by statement.            *)
(***************************************************************************)
\* objective values are integers here; the folder and RO_Obj, RF_Obj hold them in
\* units of 1e-7, the unit of EPS
Scale == 10000000
ToFixed(v) == v * Scale

Operations == {"Triviality_calculate", "nontrivial_BMIP_generator"}

\* coupled and lower decoupled continuous variables; an upper decoupled binary one
OracleParams ==
    {Counts(0, 0, 1, 0, 1, 0, 1, 0),
     Counts(0, 1, 0, 0, 0, 0, 1, 0)}

OracleDraws ==
    {Draw(agg, "zero", 0, 1, 1, 1, ffl, ffc) :
        agg \in {"zero", "diag"}, ffl \in {-1, 1}, ffc \in {-1, 1}}

RO_Expression_Lower(m) == m.lower_objective

\* the expression RO_Obj is read from: mymodel.objective(), the active objective
RO_Expression(m) == m.objective.expr

\* the expression RF_Obj is read from: mymodel.upper_objective()
RF_Expression_Active(m) == m.objective.expr

RF_Expression(m) == m.upper_objective

\* the locals of the two operations that the loop body leaves alone
O_frame == UNCHANGED <<op, parameters, N_eval, N_gen, I, max_iterations, calls, result,
                       problems_name, cwd, entry_cwd>>

O_Call ==
    /\ pc = "idle"
    /\ \E p \in OracleParams, operation \in Operations, n \in 1..MaxN, mult \in 1..MaxI :
          /\ parameters' = p
          /\ op' = operation
          /\ IF operation = "Triviality_calculate"
             THEN /\ N_eval' = n
                  /\ UNCHANGED <<N_gen, I, max_iterations>>
             ELSE /\ N_gen' = n /\ I' = mult /\ max_iterations' = mult * n
                  /\ UNCHANGED N_eval
    /\ count' = 0 /\ count_trivial' = 0 /\ count_nontrivial' = 0
    /\ i' = Unbound /\ iteration' = Unbound
    /\ pc' = "loop"
    /\ calls' = calls + 1
    /\ gens' = 0 /\ solves' = 0 /\ kept' = 0
    /\ RO_Obj' = <<>> /\ RF_Obj' = <<>> /\ problem_name' = 0
    /\ result' = NoResult /\ err' = ""
    /\ entry_cwd' = cwd
    /\ cwd' = chdir(cwd, problems_name)
    /\ folder' = Entered(cwd')
    /\ UNCHANGED <<problems_name, lost, modelVars>>

\* the loop head, the name of the attempt and generate_problem(problem_name, parameters)
O_Generate ==
    /\ pc = "loop"
    /\ IF TC
       THEN /\ i + 1 < N_eval
            /\ i' = i + 1
            /\ problem_name' = i' - count + 1
            /\ UNCHANGED iteration
       ELSE /\ iteration + 1 < max_iterations
            /\ iteration' = iteration + 1
            /\ problem_name' = count_nontrivial + 1
            /\ UNCHANGED i
    /\ \E draw \in OracleDraws :
          folder' = Written(folder, problem_name', generate_problem(parameters, draw))
    /\ lost' = (lost \/ HoldsRetained(folder, problem_name'))
    /\ gens' = gens + 1
    /\ pc' = "generated"
    /\ UNCHANGED <<count, count_trivial, count_nontrivial, RO_Obj, RF_Obj, err, solves, kept,
                   modelVars>>
    /\ O_frame

\* mymodel = ConcreteModel(); load_problem(problem_name, model=mymodel)
O_load_problem ==
    /\ pc = "generated"
    /\ inst' = folder[problem_name]
    /\ model' = load_problem(inst')
    /\ mpc' = IF model'.built THEN "built" ELSE "error"
    /\ ops' = <<>> /\ obs' = <<>> /\ snap' = NoModel
    /\ pc' = IF model'.built THEN "loaded" ELSE "raised"
    /\ err' = IF model'.built THEN err ELSE model'.error
    /\ UNCHANGED <<i, iteration, count, count_trivial, count_nontrivial, problem_name,
                   RO_Obj, RF_Obj, folder, gens, solves, kept, lost>>
    /\ O_frame

\* solver.solve(mymodel) on the model as it stands: a true optimum is loaded, or the
\* call raises
O_solve(record, expression, next) ==
    /\ solves' = solves + 1
    /\ \E ok \in BOOLEAN :
          IF ok
          THEN /\ \E a \in Optimal(model) : model' = Loaded(model, a)
               /\ obs' = Append(obs, [objective |-> Evaluate(model'.objective.expr, model'),
                                      upper_objective |->
                                          Evaluate(model'.upper_objective, model')])
               /\ ops' = Append(ops, "solve")
               /\ record = <<ToFixed(Evaluate(expression, model'))>>
               /\ pc' = next
               /\ err' = err
          ELSE /\ pc' = OnSolverFailure
               /\ err' = "SolverFailure"
               /\ record = IF next = "relaxed" THEN RO_Obj ELSE RF_Obj
               /\ UNCHANGED <<model, obs, ops>>
    /\ UNCHANGED <<i, iteration, count, count_trivial, count_nontrivial, problem_name,
                   folder, gens, kept, lost, inst, mpc, snap>>
    /\ O_frame

\* solver.solve(mymodel); RO_Obj = mymodel.objective()
O_solve_relaxed ==
    /\ pc = "loaded"
    /\ O_solve(RO_Obj', RO_Expression(model), "relaxed")
    /\ UNCHANGED RF_Obj

O_fixed_upper ==
    /\ pc = "relaxed"
    /\ snap' = model
    /\ model' = fixed_upper(model)
    /\ ops' = Append(ops, "fixed_upper")
    /\ pc' = "fixed"
    /\ UNCHANGED <<i, iteration, count, count_trivial, count_nontrivial, problem_name,
                   RO_Obj, RF_Obj, folder, err, gens, solves, kept, lost, inst, mpc, obs>>
    /\ O_frame

O_setlowerobj ==
    /\ pc = "fixed"
    /\ model' = setlowerobj(model)
    /\ ops' = Append(ops, "setlowerobj")
    /\ pc' = "lowerset"
    /\ UNCHANGED <<i, iteration, count, count_trivial, count_nontrivial, problem_name,
                   RO_Obj, RF_Obj, folder, err, gens, solves, kept, lost, inst, mpc, obs,
                   snap>>
    /\ O_frame

\* solver.solve(mymodel); RF_Obj = mymodel.upper_objective()
O_solve_fixed ==
    /\ pc = "lowerset"
    /\ O_solve(RF_Obj', RF_Expression(model), "classify")
    /\ UNCHANGED RO_Obj

NextOracle ==
    \/ O_Call
    \/ O_Generate
    \/ O_load_problem
    \/ O_solve_relaxed
    \/ O_fixed_upper
    \/ O_setlowerobj
    \/ O_solve_fixed
    \/ TC_Classify
    \/ TC_Return
    \/ NG_Classify
    \/ NG_Return

SpecOracle == InitDefault /\ [][NextOracle]_vars

(***************************************************************************)
(* Properties of the corpus operations                                     *)
(***************************************************************************)
AttemptInProgress == pc \in {"generated", "relaxed", "classify"}

\* C1: nontrivial_BMIP_generator makes at most I * N_gen attempts and retains at most
\* N_gen instances; no attempt is in progress once N_gen instances are retained; when
\* it returns, N_gen instances were retained or I * N_gen attempts were made.
C1_AttemptBudget ==
    NG =>
        /\ gens <= I * N_gen
        /\ kept <= N_gen
        /\ count_nontrivial = kept
        /\ AttemptInProgress => kept < N_gen
        /\ pc = "done" => kept = N_gen \/ gens = I * N_gen

\* the generator stops early: the target is reached with budget left
C1_Witness ==
    /\ NG /\ pc = "done"
    /\ N_gen = 2 /\ I = 2
    /\ kept = 2 /\ gens = 3

\* C2: the percentage nontrivial_BMIP_generator returns is 100 * (attempts classified
\* trivial) / (attempts made), a value in [0, 100], and the second value returned is
\* the number of instances retained.
C2_ObservedPercentage ==
    NG /\ pc = "done" =>
        LET pct == result.trivial_percentage
        IN  /\ pct.num * gens = 100 * (gens - kept) * pct.den
            /\ 0 <= pct.num /\ pct.num <= 100 * pct.den
            /\ result.count_nontrivial = kept

\* C3 as stated: every run of Triviality_calculate that no solver failure ends
\* performs exactly N_eval cycles and returns 100 * trivial / N_eval, in [0, 100].
C3_AlwaysReturns ==
    TC /\ pc \in {"done", "raised"} /\ err # "SolverFailure" =>
        /\ pc = "done"
        /\ gens = N_eval /\ solves = 2 * N_eval
        /\ result.trivial_percentage.num * N_eval =
              100 * (gens - kept) * result.trivial_percentage.den
        /\ 0 <= result.trivial_percentage.num
        /\ result.trivial_percentage.num <= 100 * result.trivial_percentage.den

\* C3 amended: for N_eval >= 1 every run no solver failure ends performs exactly N_eval
\* cycles (one generation, two solver calls each) and returns 100 * trivial / N_eval,
\* in [0, 100]; for N_eval = 0 it performs no cycle and raises ZeroDivisionError.
C3_ExactCycles ==
    TC /\ pc \in {"done", "raised"} /\ err # "SolverFailure" =>
        IF N_eval >= 1
        THEN /\ pc = "done"
             /\ gens = N_eval /\ solves = 2 * N_eval
             /\ result.trivial_percentage.num * N_eval =
                   100 * (gens - kept) * result.trivial_percentage.den
             /\ 0 <= result.trivial_percentage.num
             /\ result.trivial_percentage.num <= 100 * result.trivial_percentage.den
        ELSE /\ pc = "raised" /\ err = "ZeroDivisionError"
             /\ gens = 0 /\ solves = 0 /\ result = NoResult

\* two cycles, one trivial and one not: 50 percent
C3_Witness ==
    /\ TC /\ pc = "done" /\ N_eval = 2
    /\ gens = 2 /\ kept = 1
    /\ result.trivial_percentage = [num |-> 100, den |-> 2]

\* C4: at the end of every iteration and on return the folder holds exactly
\* problem_1 .. problem_k, k the number of instances classified non-trivial so far,
\* and no instance classified non-trivial was overwritten.
C4_DenseNumbering ==
    op # "none" /\ gens >= 1 /\ pc \in {"loop", "exit", "done"} =>
        /\ DOMAIN folder = 1..kept
        /\ ~lost

\* C4 within one operation on a folder that held no instance when it started
C4_FreshFolder ==
    calls = 1 /\ pc \in {"loop", "exit", "done"} =>
        /\ DOMAIN folder = 1..kept
        /\ ~lost

TrivialCounter == IF TC THEN count ELSE count_trivial

\* C5: classification has exactly two outcomes.  |gap| < 1e-6: the instance is deleted
\* and the trivial counter incremented.  Otherwise: the instance stays, its files
\* untouched, and its metadata is the stored metadata with RO_Obj, RF_Obj and Gap
\* added, Gap = RF_Obj - RO_Obj; the trivial counter keeps its value.
C5_Classification ==
    [][pc = "classify" /\ pc' # "classify" =>
        LET gap == RF_Obj[1] - RO_Obj[1]
            old == folder[problem_name]
        IN  /\ \A s \in DOMAIN folder \ {problem_name} :
                  s \in DOMAIN folder' /\ folder'[s] = folder[s]
            /\ IF 0 - EPS < gap /\ gap < EPS
               THEN /\ problem_name \notin DOMAIN folder'
                    /\ TrivialCounter' = TrivialCounter + 1
               ELSE /\ problem_name \in DOMAIN folder'
                    /\ TrivialCounter' = TrivialCounter
                    /\ LET new == folder'[problem_name]
                       IN  /\ new.A = old.A /\ new.b = old.b /\ new.o = old.o
                           /\ DOMAIN new.metadata =
                                 DOMAIN old.metadata \cup {"RO_Obj", "RF_Obj", "Gap"}
                           /\ \A k \in DOMAIN old.metadata : new.metadata[k] = old.metadata[k]
                           /\ new.metadata["RO_Obj"] = RO_Obj[1]
                           /\ new.metadata["RF_Obj"] = RF_Obj[1]
                           /\ new.metadata["Gap"] = RF_Obj[1] - RO_Obj[1]
    ]_vars

\* an instance with a negative gap of magnitude 1e-6 was kept and annotated
C5_Witness ==
    /\ pc \in {"loop", "exit"}
    /\ RO_Obj = <<1>> /\ RF_Obj = <<1 - EPS>>
    /\ problem_name \in DOMAIN folder
    /\ "Gap" \in DOMAIN folder[problem_name].metadata
    /\ folder[problem_name].metadata["Gap"] = 0 - EPS
    /\ folder[problem_name].metadata["x_uc"] = parameters["x_uc"]

C14_WorkingDirectoryRestored ==
    pc \in {"done", "raised"} => cwd = entry_cwd

\* C14 for a problems_name of one relative component, when the loop runs to its end:
\* os.chdir("..") undoes os.chdir(problems_name)
C14_OneComponentLoopEnded ==
    /\ pc \in {"done", "raised"}
    /\ ~problems_name.absolute /\ Len(problems_name.parts) = 1
    /\ err \notin {"SolverFailure", "IndexError"}
    => cwd = entry_cwd

(***************************************************************************)
(* Properties of the model builder and state controller                    *)
(***************************************************************************)
\* every file of a non-empty block has the size the metadata gives
WellFormed(instance) ==
    /\ \A blk \in DOMAIN ConstraintBlocks :
          LET n == GroupTotal(instance.metadata, ConstraintBlocks[blk])
          IN  n # 0 => /\ Len(instance.A[blk]) = n
                       /\ \A r \in DOMAIN instance.A[blk] : Len(instance.A[blk][r]) = n
                       /\ Len(instance.b[blk]) = n
    /\ \A blk \in DOMAIN ObjectiveBlocks :
          LET n == GroupTotal(instance.metadata, ObjectiveBlocks[blk])
          IN  n # 0 => Len(instance.o[blk]) = n

RowsOf(m, blk) == {c \in DOMAIN m.constraints : m.constraints[c].blk = blk}
ConstraintBlocksOf(m) == {m.constraints[c].blk : c \in DOMAIN m.constraints}
ObjectiveBlocksOf(m) ==
    {m.upper_objective[t].blk : t \in DOMAIN m.upper_objective}
        \cup {m.lower_objective[t].blk : t \in DOMAIN m.lower_objective}
TermsOf(expr, blk) == {t \in DOMAIN expr : expr[t].blk = blk}

ScenarioBuilt == mpc = "built" /\ inst.metadata = ScenarioParams /\ WellFormed(inst)

\* C6 as stated: for x_uc = 2, x_lc = 2, the other counts 0, the constraints of the
\* built model come from g_g alone (4 rows over 4 variables) and the objective terms
\* from F_c and ff_c alone (4 each).
C6_OnlyGlobalBlock ==
    ScenarioBuilt =>
        /\ ConstraintBlocksOf(model) = {"g_g"}
        /\ Cardinality(RowsOf(model, "g_g")) = 4
        /\ \A c \in RowsOf(model, "g_g") : Len(model.constraints[c].terms) = 4
        /\ ObjectiveBlocksOf(model) = {"F_c", "ff_c"}
        /\ Len(model.upper_objective) = 4 /\ Len(model.lower_objective) = 4

\* C6 amended: the constraints come from exactly three blocks, G_uc (2 rows over the
\* 2 x_uc variables), g_lc (2 rows over the 2 x_lc variables) and g_g (4 rows over all
\* 4 variables); the objective terms come from exactly F_c (upper) and ff_c (lower), 4
\* each; G_ud, g_ld, F_u, F_l and ff_l contribute nothing.
C6_ScenarioBlocks ==
    ScenarioBuilt =>
        /\ ConstraintBlocksOf(model) = {"G_uc", "g_lc", "g_g"}
        /\ Cardinality(RowsOf(model, "G_uc")) = 2
        /\ \A c \in RowsOf(model, "G_uc") :
              /\ Len(model.constraints[c].terms) = 2
              /\ \A t \in DOMAIN model.constraints[c].terms :
                    model.constraints[c].terms[t].grp = "x_uc"
        /\ Cardinality(RowsOf(model, "g_lc")) = 2
        /\ \A c \in RowsOf(model, "g_lc") :
              /\ Len(model.constraints[c].terms) = 2
              /\ \A t \in DOMAIN model.constraints[c].terms :
                    model.constraints[c].terms[t].grp = "x_lc"
        /\ Cardinality(RowsOf(model, "g_g")) = 4
        /\ \A c \in RowsOf(model, "g_g") :
              {<<model.constraints[c].terms[t].grp, model.constraints[c].terms[t].idx>> :
                  t \in DOMAIN model.constraints[c].terms} = VarIds(model)
        /\ Len(model.constraints) = 8
        /\ ObjectiveBlocksOf(model) = {"F_c", "ff_c"}
        /\ Cardinality(TermsOf(model.upper_objective, "F_c")) = 4
        /\ Len(model.upper_objective) = 4
        /\ Cardinality(TermsOf(model.lower_objective, "ff_c")) = 4
        /\ Len(model.lower_objective) = 4
        /\ ops = <<>> => model.objective.expr = model.upper_objective

C6_Witness == ScenarioBuilt /\ Cardinality(VarIds(model)) = 4 /\ ops = <<>>

\* the two-phase protocol of the triviality test, applied to a fresh model
Protocol == <<"solve", "fixed_upper", "setlowerobj", "solve">>
ProtocolDone == mpc = "built" /\ ops = Protocol
\* gap = RF_Obj - RO_Obj
Gap == obs[2].upper_objective - obs[1].objective

IsZeroMatrix(A) == \A r \in DOMAIN A : \A c \in DOMAIN A[r] : A[r][c] = 0

\* C7 as stated: g_g all zeros and F_c = ff_c give gap = 0, whatever the variable
\* counts and the other blocks.
C7_ZeroCouplingTrivial ==
    ProtocolDone /\ IsZeroMatrix(inst.A["g_g"]) /\ inst.o["F_c"] = inst.o["ff_c"] =>
        Gap = 0

\* C7 amended: g_g all zeros, F_c = ff_c and F_l = ff_l (in particular no lower
\* decoupled variable, both vectors empty) give gap = 0.
C7_SameLowerTermsTrivial ==
    /\ ProtocolDone
    /\ IsZeroMatrix(inst.A["g_g"])
    /\ inst.o["F_c"] = inst.o["ff_c"]
    /\ inst.o["F_l"] = inst.o["ff_l"]
    => Gap = 0

\* the protocol ran on an instance of the amended claim that has upper decoupled,
\* lower decoupled and coupled variables, with other blocks that are not zero
C7_Witness ==
    /\ ProtocolDone
    /\ IsZeroMatrix(inst.A["g_g"])
    /\ inst.o["F_c"] = inst.o["ff_c"] /\ inst.o["F_l"] = inst.o["ff_l"]
    /\ inst.metadata["x_ud"] = 1 /\ inst.metadata["y_ld"] = 1
    /\ ~IsZeroMatrix(inst.A["g_lc"])
    /\ Gap = 0

UpperVarIds(m) == {id \in VarIds(m) : id[1] \in Range(upper_params)}
VarAt(m, id) == m.var[id[1]][id[2]]
LastOp == IF ops = <<>> THEN "none" ELSE ops[Len(ops)]

\* C8: unfixed_upper leaves no upper-level variable fixed and touches no lower-level
\* variable; right after fixed_upper it gives back the model fixed_upper was applied to
\* (domains, bounds, values, constraints, objective expressions, active objective),
\* upper-level variables unfixed; when nothing is fixed it changes nothing.
\* fixed_upper touches no lower-level variable, constraint or objective either, and
\* with every upper-level group empty neither operation changes anything.
C8_FixUnfixRoundTrip ==
    [][/\ ops' = Append(ops, "unfixed_upper") =>
            /\ \A id \in UpperVarIds(model') : ~VarAt(model', id).fixed
            /\ \A id \in VarIds(model) \ UpperVarIds(model) :
                  VarAt(model', id) = VarAt(model, id)
            /\ VarIds(model') = VarIds(model)
            /\ LastOp = "fixed_upper" =>
                  /\ model'.constraints = snap.constraints
                  /\ model'.upper_objective = snap.upper_objective
                  /\ model'.lower_objective = snap.lower_objective
                  /\ model'.objective = snap.objective
                  /\ \A id \in VarIds(snap) :
                        /\ VarAt(model', id).domain = VarAt(snap, id).domain
                        /\ VarAt(model', id).bounds = VarAt(snap, id).bounds
                        /\ VarAt(model', id).value = VarAt(snap, id).value
                  /\ (\A id \in UpperVarIds(snap) : ~VarAt(snap, id).fixed) => model' = snap
            /\ (\A id \in UpperVarIds(model) : ~VarAt(model, id).fixed) => model' = model
            /\ UpperVarIds(model) = {} => model' = model
       /\ ops' = Append(ops, "fixed_upper") =>
            /\ UpperVarIds(model) = {} => model' = model
            /\ \A id \in UpperVarIds(model') :
                  VarAt(model', id) = [VarAt(model, id) EXCEPT !.fixed = TRUE]
            /\ \A id \in VarIds(model) \ UpperVarIds(model) :
                  VarAt(model', id) = VarAt(model, id)
            /\ model'.constraints = model.constraints
            /\ model'.objective = model.objective
    ]_vars

\* after a solve, fixed_upper then unfixed_upper on a model with an upper decoupled
\* binary variable: the model is the one the solve left
C8_Witness ==
    /\ mpc = "built"
    /\ ops = <<"solve", "fixed_upper", "unfixed_upper">>
    /\ inst.metadata["y_ud"] = 1
    /\ model = snap
    /\ model.var["y_ud"][1].value # <<>>

\* C9: load_problem fails, and builds no model, whenever a file of a non-empty block
\* has a size other than the one the metadata gives; a built model has, per block, as
\* many constraints as the metadata gives.
C9_ShapeMismatchFails ==
    mpc # "start" =>
        /\ ~WellFormed(inst) => mpc = "error" /\ ~model.built
        /\ model.built =>
              \A blk \in DOMAIN ConstraintBlocks :
                  Cardinality(RowsOf(model, blk)) =
                      GroupTotal(inst.metadata, ConstraintBlocks[blk])

(***************************************************************************)
(* Properties of the attempt with the solver oracle in the loop            *)
(***************************************************************************)
\* what has been applied to mymodel at each position of the loop body
StageOps ==
    [loaded   |-> <<>>,
     relaxed  |-> <<"solve">>,
     fixed    |-> <<"solve", "fixed_upper">>,
     lowerset |-> <<"solve", "fixed_upper", "setlowerobj">>,
     classify |-> Protocol]

AfterRelaxed == pc \in {"relaxed", "fixed", "lowerset", "classify"}
AfterFixed == pc \in {"fixed", "lowerset", "classify"}

\* C11: in every attempt of both operations the model is built anew from the instance
\* of the attempt (no variable fixed, no value, upper_objective active); the steps are
\* solve, fixed_upper, setlowerobj, solve in this order; RO_Obj is the value of the
\* active objective, which is upper_objective, at the first solution; the upper-level
\* variables are fixed at the values of the first solution from fixed_upper on; RF_Obj
\* is the value of upper_objective, not of the active lower_objective, at the second.
C11_ProtocolOrder ==
    /\ pc \in DOMAIN StageOps =>
          /\ ops = StageOps[pc]
          /\ inst = folder[problem_name]
          /\ model.constraints = load_problem(inst).constraints
          /\ model.upper_objective = load_problem(inst).upper_objective
          /\ model.lower_objective = load_problem(inst).lower_objective
    /\ pc = "loaded" =>
          /\ model = load_problem(inst)
          /\ \A id \in VarIds(model) :
                ~VarAt(model, id).fixed /\ VarAt(model, id).value = <<>>
    /\ pc \in {"loaded", "relaxed", "fixed"} =>
          model.objective.expr = model.upper_objective
    /\ AfterRelaxed =>
          /\ RO_Obj = <<ToFixed(obs[1].objective)>>
          /\ obs[1].objective = obs[1].upper_objective
    /\ pc = "relaxed" =>
          /\ \A id \in VarIds(model) : ~VarAt(model, id).fixed
          /\ Evaluate(model.upper_objective, model) = obs[1].objective
    /\ AfterFixed =>
          /\ Evaluate(snap.upper_objective, snap) = obs[1].objective
          /\ \A id \in VarIds(snap) : ~VarAt(snap, id).fixed
          /\ \A id \in UpperVarIds(model) :
                /\ VarAt(model, id).fixed
                /\ VarAt(model, id).value = VarAt(snap, id).value
          /\ \A id \in VarIds(model) \ UpperVarIds(model) : ~VarAt(model, id).fixed
    /\ pc \in {"lowerset", "classify"} =>
          model.objective.expr = model.lower_objective
    /\ pc = "classify" =>
          /\ RF_Obj = <<ToFixed(Evaluate(model.upper_objective, model))>>
          /\ obs[2].upper_objective = Evaluate(model.upper_objective, model)
          /\ obs[2].objective = Evaluate(model.lower_objective, model)

\* the second attempt of an operation reached classification: the second solve moved
\* a lower-level variable, its objective value is not the value RF_Obj records, and
\* the instance of the first attempt is still stored
C11_Witness ==
    /\ pc = "classify" /\ gens = 2 /\ ops = Protocol
    /\ problem_name = 2
    /\ obs[2].objective # obs[2].upper_objective
    /\ RF_Obj = <<ToFixed(obs[2].upper_objective)>>
    /\ RF_Obj # RO_Obj
    /\ \E id \in UpperVarIds(model) : VarAt(model, id).value = VarAt(snap, id).value
    /\ \E id \in VarIds(model) : VarAt(model, id).value # VarAt(snap, id).value

\* C13: with a solver that returns true optima and keeps fixed variables at their
\* values, the model with the upper-level variables fixed at the first solution has a
\* feasible assignment, RF_Obj - RO_Obj >= 0 when the attempt is classified, and the
\* Gap recorded for every retained instance is at least 1e-6.
C13_GapNonNegative ==
    /\ pc \in {"fixed", "lowerset"} => Feasible(model) # {}
    /\ pc = "classify" => RF_Obj[1] - RO_Obj[1] >= 0
    /\ \A slot \in DOMAIN folder :
          "Gap" \in DOMAIN folder[slot].metadata =>
              /\ folder[slot].metadata["Gap"] >= EPS
              /\ folder[slot].metadata["Gap"] =
                    folder[slot].metadata["RF_Obj"] - folder[slot].metadata["RO_Obj"]

\* an instance was retained with a gap of 20: the second solve moved x_ld from -10 to 10
C13_Witness ==
    /\ pc \in {"loop", "exit"}
    /\ problem_name \in DOMAIN folder
    /\ "Gap" \in DOMAIN folder[problem_name].metadata
    /\ folder[problem_name].metadata["Gap"] = ToFixed(20)
    /\ folder[problem_name].metadata["x_ld"] = 1
    /\ ops = Protocol
    /\ VarAt(snap, <<"x_ld", 1>>).value = <<LowerBound>>
    /\ VarAt(model, <<"x_ld", 1>>).value = <<UpperBound>>

(***************************************************************************)
(* Properties of add_constraints                                           *)
(***************************************************************************)
\* the variables of the groups xs, concatenated in declared order
Concatenation(params, xs) ==
    Concat([g \in DOMAIN xs |-> [d \in 1..params[xs[g]] |-> <<xs[g], d>>]])

\* the variable a term multiplies
VarOf(term) == <<term.grp, term.idx>>

\* C12: for an instance as generate_problem writes it, every block whose feeding
\* groups have n > 0 variables contributes exactly n constraints, consecutive in the
\* model; in row i column j carries A[i][j] and multiplies the j-th variable of the
\* concatenation of the feeding groups, so every variable of the feeding groups sits
\* under exactly one column; the right-hand side of row i is b[i].
C12_ColumnAlignment ==
    mpc = "built" /\ WellFormed(inst) =>
        \A blk \in DOMAIN ConstraintBlocks :
            LET xs == ConstraintBlocks[blk]
                n == GroupTotal(inst.metadata, xs)
                cat == Concatenation(inst.metadata, xs)
            IN  /\ Cardinality(RowsOf(model, blk)) = n
                /\ Len(cat) = n
                /\ n > 0 =>
                      \E offset \in 0..Len(model.constraints) :
                          /\ RowsOf(model, blk) = (offset + 1)..(offset + n)
                          /\ \A r \in 1..n :
                                LET row == model.constraints[offset + r]
                                IN  /\ Len(row.terms) = n
                                    /\ row.rhs = inst.b[blk][r]
                                    /\ \A j \in 1..n :
                                          /\ row.terms[j].coef = inst.A[blk][r][j]
                                          /\ VarOf(row.terms[j]) = cat[j]
                                    /\ \A id \in Range(cat) :
                                          Cardinality({j \in 1..n : VarOf(row.terms[j]) = id}) = 1

\* a model built from matrices whose entries all differ, with x_ud = 1, y_ud = 0,
\* x_uc = 0, y_uc = 1: in row 2 of G_uc column 2 multiplies y_uc[1]
C12_Witness ==
    /\ mpc = "built" /\ WellFormed(inst)
    /\ inst.metadata = Counts(1, 0, 0, 1, 0, 1, 1, 0)
    /\ inst.A["G_uc"][1][2] # inst.A["G_uc"][2][1]
    /\ \E c \in RowsOf(model, "G_uc") :
          /\ model.constraints[c].terms[2].coef = inst.A["G_uc"][2][2]
          /\ model.constraints[c].terms[1].coef = inst.A["G_uc"][2][1]
          /\ VarOf(model.constraints[c].terms[2]) = <<"y_uc", 1>>
          /\ VarOf(model.constraints[c].terms[1]) = <<"x_ud", 1>>

====
